---- MODULE Spec2Model ----
(***************************************************************************)
(* JobSpeak processing pipeline: the per-artifact stage ledger             *)
(* (Conversation / Interview rows), the background tasks of api/tasks.py   *)
(* that move it, and the handlers that schedule them (api/views.py,        *)
(* scripts/reprocess_interview.py).                                        *)
(*                                                                         *)
(* One artifact is followed.  Every task run is split at its database      *)
(* operations, because runs execute in separate worker processes and       *)
(* share nothing but the row:                                              *)
(*   load   - Model.objects.get(id): the run takes a private copy (snap)   *)
(*   start  - the prerequisite check on that copy and the first save()     *)
(*   finish - the external call(s), the last save() and the scheduling     *)
(* save(update_fields=F) writes exactly the fields F of the private copy.  *)
(* The external services (Deepgram, Gemini, S3) are opaque: the model      *)
(* draws their outcome from the cases the task code tells apart.           *)
(***************************************************************************)
EXTENDS Naturals, Sequences, FiniteSets, Bags, TLC

\* ------------------------------------------------------------- bounds
MaxAnswers    == 1   \* answer-audio keys of an interview
MaxAnswerKeys == 2   \* answer-audio keys of an interview (SpecPipeline)
MaxWorkers    == 2   \* task runs in flight at once
MaxReprocess  == 1   \* runs of scripts/reprocess_interview.py
MaxRegenerate == 1   \* regenerations of the transcription (SpecRegen)

\* ---------------------------------------------------------- constants
STATUS_PENDING    == "pending"
STATUS_PROCESSING == "processing"
STATUS_COMPLETED  == "completed"
STATUS_FAILED     == "failed"
STATUS_CHOICES    == {STATUS_PENDING, STATUS_PROCESSING, STATUS_COMPLETED, STATUS_FAILED}

T == "transcription"
R == "recap"
S == "summary"
A == "analysis"
C == "coaching"

ConvStages == {T, R, S, A, C}
IntStages  == {T, A, C}
Stages(k)  == IF k = "conversation" THEN ConvStages ELSE IntStages

\* The prerequisite each task checks before it runs.
Deps(k, s) ==
    IF k = "conversation"
    THEN CASE s = T -> {}
           [] s = R -> {T}
           [] s = S -> {R}
           [] s = A -> {R}
           [] s = C -> {T}
    ELSE CASE s = T -> {}
           [] s = A -> {T}
           [] s = C -> {A}

\* Stages transitively requiring s, by the prerequisite checks.
RECURSIVE Requires(_, _, _)
Requires(k, s, n) ==
    IF n = 0 THEN {}
    ELSE LET direct == {d \in Stages(k) : s \in Deps(k, d)}
         IN  direct \cup UNION {Requires(k, d, n - 1) : d \in direct}
Downstream(k, s) == Requires(k, s, Cardinality(Stages(k)))

\* Variant: a failure fails only the stages that require the failed one.
CascadeByPrerequisite(k, s) == Downstream(k, s)

\* Variant: a failing task marks only its own stage FAILED.
CascadeNone(k, s) == {}

\* The stages a task marks FAILED along with its own when it fails.
CascadeOf(k, s) ==
    IF k = "conversation"
    THEN CASE s = T -> {R, S, A, C}
           [] s = R -> {S, A, C}
           [] OTHER -> {}
    ELSE CASE s = T -> {A, C}
           [] s = A -> {C}
           [] OTHER -> {}

\* Result payloads, abstracted to the cases the code tells apart.
NoResult == "none"      \* None, or the empty default {}
Chain    == <<"detailed", "balanced", "short">>
\* Variant: the summary task stores no summary_data.
SummaryDropped(n) == NoResult
SummaryOf(n) == CASE n = 0 -> "s0" [] n = 1 -> "s1" [] n = 2 -> "s2" [] OTHER -> "s3"

VARIABLES
    kind,        \* "conversation" or "interview"
    created,     \* perform_create has run
    exists,      \* the row is in the database
    source,      \* conversation: 1 iff audio_file is set; interview: number of S3 keys
    db,          \* the row: status and result per stage, answer_transcripts_json
    queue,       \* scheduled tasks not yet started, per stage
    runs,        \* bag of task runs in flight: [stage, pc, snap]
    last,        \* the step just taken: [op, stage, out, calls]; calls = external
                 \* inference calls made within the step
    nReprocess,
    nRegenerate

vars == <<kind, created, exists, source, db, queue, runs, last, nReprocess, nRegenerate>>

DefaultRow(k) ==
    [status  |-> [s \in Stages(k) |-> STATUS_PENDING],
     result  |-> [s \in Stages(k) |-> NoResult],
     answers |-> <<>>]

\* instance.field = v for the status of every stage of F
SetStatus(row, F, v) ==
    [row EXCEPT !.status = [s \in DOMAIN row.status |-> IF s \in F THEN v ELSE row.status[s]]]

\* Variant: the assignment to the result field is lost.
SetResultDropped(row, F, v) == row

\* instance.field = v for the result of every stage of F
SetResult(row, F, v) ==
    [row EXCEPT !.result = [s \in DOMAIN row.result |-> IF s \in F THEN v ELSE row.result[s]]]

\* Variant: save() without update_fields writes the whole private copy.
SaveWholeRow(cur, loc, SF, RF, ans) ==
    [status  |-> loc.status,
     result  |-> loc.result,
     answers |-> IF ans THEN loc.answers ELSE cur.answers]

\* save(update_fields=...): the status fields SF, the result fields RF and, when
\* ans, answer_transcripts_json are taken from the private copy loc.
Save(cur, loc, SF, RF, ans) ==
    [status  |-> [s \in DOMAIN cur.status |-> IF s \in SF THEN loc.status[s] ELSE cur.status[s]],
     result  |-> [s \in DOMAIN cur.result |-> IF s \in RF THEN loc.result[s] ELSE cur.result[s]],
     answers |-> IF ans THEN loc.answers ELSE cur.answers]

\* Variant: a save() of a deleted row writes the row again.
WrittenAnyway(new) == new

\* A save() of a deleted row raises DatabaseError and writes nothing.
Written(new) == IF exists THEN new ELSE db

Inc(f, s, n) == [f EXCEPT ![s] = @ + n]
IncAll(f, F) == [x \in DOMAIN f |-> IF x \in F THEN f[x] + 1 ELSE f[x]]

NoStep == [op |-> "none", stage |-> "-", out |-> "-", calls |-> 0]
Step(op, st, out, n) == [op |-> op, stage |-> st, out |-> out, calls |-> n]

EndRun(r)  == runs' = runs (-) SetToBag({r})
Advance(r) == runs' = (runs (-) SetToBag({r})) (+) SetToBag({[r EXCEPT !.pc = "processing"]})
\* After the first save(): go on, unless the row is gone (the save raised).
Proceed(r) == IF exists THEN Advance(r) ELSE EndRun(r)

Init ==
    /\ kind \in {"conversation", "interview"}
    /\ created = FALSE
    /\ exists = FALSE
    /\ source = 0
    /\ db = DefaultRow(kind)
    /\ queue = [s \in Stages(kind) |-> 0]
    /\ runs = EmptyBag
    /\ last = NoStep
    /\ nReprocess = 0
    /\ nRegenerate = 0

\* ------------------------------------------------------------ handlers

\* How a creation request ends: the row has a source and its root task is
\* scheduled, the request carried no source, or an upload to S3 failed.
CreateOutcome(hasSource, s3ok) ==
    IF ~hasSource THEN "nosource" ELSE IF s3ok THEN "scheduled" ELSE "uploadfail"

\* Variant: creation without audio marks only the root stage FAILED.
perform_create_root_only ==
    /\ kind = "conversation"
    /\ ~created
    /\ created' = TRUE
    /\ \E audio \in BOOLEAN, s3ok \in BOOLEAN :
         /\ (~audio => s3ok)
         /\ IF audio /\ ~s3ok
            THEN /\ exists' = FALSE
                 /\ UNCHANGED <<source, db, queue>>
            ELSE IF audio
            THEN /\ exists' = TRUE
                 /\ source' = 1
                 /\ queue' = Inc(queue, T, 1)
                 /\ UNCHANGED db
            ELSE /\ exists' = TRUE
                 /\ source' = 0
                 /\ db' = SetStatus(db, {T}, STATUS_FAILED)
                 /\ UNCHANGED queue
         /\ last' = Step("create", "-", CreateOutcome(audio, s3ok), 0)
    /\ UNCHANGED <<kind, runs, nReprocess, nRegenerate>>

ConversationViewSet_perform_create ==
    /\ kind = "conversation"
    /\ ~created
    /\ created' = TRUE
    /\ \E audio \in BOOLEAN, s3ok \in BOOLEAN :
         /\ (~audio => s3ok)
         /\ IF audio /\ ~s3ok
            THEN \* S3 upload failed: instance.delete(), re-raise
                 /\ exists' = FALSE
                 /\ UNCHANGED <<source, db, queue>>
            ELSE IF audio
            THEN /\ exists' = TRUE
                 /\ source' = 1
                 /\ queue' = Inc(queue, T, 1)
                 /\ UNCHANGED db
            ELSE /\ exists' = TRUE
                 /\ source' = 0
                 /\ db' = SetStatus(db, ConvStages, STATUS_FAILED)
                 /\ UNCHANGED queue
         /\ last' = Step("create", "-", CreateOutcome(audio, s3ok), 0)
    /\ UNCHANGED <<kind, runs, nReprocess, nRegenerate>>

\* The creation of an interview with at most maxn answer-audio files.
InterviewCreate(maxn) ==
    /\ kind = "interview"
    /\ ~created
    /\ created' = TRUE
    /\ exists' = TRUE
    /\ \E n \in 0..maxn, s3ok \in BOOLEAN :
         /\ (n = 0 => s3ok)
         /\ IF n > 0 /\ s3ok
            THEN /\ source' = n
                 /\ queue' = Inc(queue, T, 1)
            ELSE \* no answer audio, or an upload failed and the handler raised:
                 \* the row stays as created and nothing is scheduled
                 /\ UNCHANGED <<source, queue>>
         /\ last' = Step("create", "-", CreateOutcome(n > 0, s3ok), 0)
    /\ UNCHANGED <<kind, db, runs, nReprocess, nRegenerate>>

InterviewViewSet_perform_create == InterviewCreate(MaxAnswers)
InterviewViewSet_perform_create_many == InterviewCreate(MaxAnswerKeys)

perform_destroy ==
    /\ created
    /\ exists
    /\ exists' = FALSE
    /\ last' = Step("delete", "-", "-", 0)
    /\ UNCHANGED <<kind, created, source, db, queue, runs, nReprocess, nRegenerate>>

reprocess_interview ==
    /\ kind = "interview"
    /\ created
    /\ exists
    /\ nReprocess < MaxReprocess
    /\ nReprocess' = nReprocess + 1
    /\ queue' = IncAll(queue, {A, C})
    /\ last' = Step("reprocess", "-", "-", 0)
    /\ UNCHANGED <<kind, created, exists, source, db, runs, nRegenerate>>

\* The transcription is regenerated: once the pipeline of the artifact has
\* settled, its transcription task is scheduled again.
onUpstreamRegenerated ==
    /\ created
    /\ exists
    /\ runs = EmptyBag
    /\ \A st \in Stages(kind) : queue[st] = 0
    /\ nRegenerate < MaxRegenerate
    /\ nRegenerate' = nRegenerate + 1
    /\ queue' = Inc(queue, T, 1)
    /\ last' = Step("regenerate", "-", "-", 0)
    /\ UNCHANGED <<kind, created, exists, source, db, runs, nReprocess>>

\* ------------------------------------------------------------ task runs

\* The fields of the row a task reads or writes through its private copy:
\* the statuses StatusRead and the results ResultRead.  The copy keeps those and
\* holds the defaults elsewhere.
StatusRead(k, st) ==
    IF k = "conversation"
    THEN CASE st = T -> {R, S, A, C}
           [] st = R -> {T, R, S, A, C}
           [] st = S -> {R, S}
           [] st = A -> {R, A}
           [] st = C -> {T, C}
    ELSE CASE st = T -> {A, C}
           [] st = A -> {T, A, C}
           [] st = C -> {A, C}
ResultRead(k, st) ==
    IF k = "conversation"
    THEN CASE st = T -> {}
           [] st = R -> {T}
           [] st = S -> {R}
           [] st = A -> {R}
           [] st = C -> {T}
    ELSE CASE st = T -> {}
           [] st = A -> {T}
           [] st = C -> {A}
PrivateCopy(k, st, row) ==
    [status  |-> [s \in Stages(k) |-> IF s \in StatusRead(k, st) THEN row.status[s] ELSE STATUS_PENDING],
     result  |-> [s \in Stages(k) |-> IF s \in ResultRead(k, st) THEN row.result[s] ELSE NoResult],
     answers |-> <<>>]

\* Variant: a run that finds no row records the stage as FAILED.
task_load_records_failure(st) ==
    /\ queue[st] > 0
    /\ BagCardinality(runs) < MaxWorkers
    /\ queue' = [queue EXCEPT ![st] = @ - 1]
    /\ IF exists
       THEN /\ runs' = runs (+) SetToBag({[stage |-> st, pc |-> "loaded",
                                           snap |-> PrivateCopy(kind, st, db)]})
            /\ last' = Step("load", st, "-", 0)
            /\ db' = db
       ELSE /\ runs' = runs
            /\ last' = Step("load", st, "gone", 0)
            /\ db' = SetStatus(db, {st}, STATUS_FAILED)
    /\ UNCHANGED <<kind, created, exists, source, nReprocess, nRegenerate>>

\* A worker takes a scheduled task and loads the row; a missing row aborts the run.
task_load(st) ==
    /\ queue[st] > 0
    /\ BagCardinality(runs) < MaxWorkers
    /\ queue' = [queue EXCEPT ![st] = @ - 1]
    /\ IF exists
       THEN /\ runs' = runs (+) SetToBag({[stage |-> st, pc |-> "loaded",
                                           snap |-> PrivateCopy(kind, st, db)]})
            /\ last' = Step("load", st, "-", 0)
       ELSE /\ runs' = runs
            /\ last' = Step("load", st, "gone", 0)
    /\ UNCHANGED <<kind, created, exists, source, db, nReprocess, nRegenerate>>

Frame == UNCHANGED <<kind, created, exists, source, nReprocess, nRegenerate>>
Outcome(o) == IF exists THEN o ELSE "gone"

\* Variant: the transcription task re-arms nothing.
NoneRearmed(snap, F) == {}

\* The reset of the downstream stages that are not PENDING in the private copy.
NotPending(snap, F) == {d \in F : snap.status[d] # STATUS_PENDING}
Armed(snap, F) ==
    SetResult(SetStatus(snap, NotPending(snap, F), STATUS_PENDING), NotPending(snap, F), NoResult)

\* Variant: a non-root task does not check its prerequisite.
PrereqUnchecked(snap, dep) == FALSE

\* The prerequisite check of a non-root task on its private copy.
PrereqMissing(snap, dep) ==
    snap.status[dep] # STATUS_COMPLETED \/ snap.result[dep] = NoResult

\* Variant: the early exit marks the stages FAILED whatever the own status is.
PrereqExitAlwaysFails(r, F) ==
    /\ db' = Written(Save(db, SetStatus(r.snap, F, STATUS_FAILED), F, {}, FALSE))
    /\ last' = Step("start", r.stage, Outcome("failed"), 0)
    /\ EndRun(r)
    /\ UNCHANGED queue

\* The early exit of a task whose prerequisite is missing.
PrereqExit(r, F) ==
    /\ IF r.snap.status[r.stage] = STATUS_PENDING
       THEN /\ db' = Written(Save(db, SetStatus(r.snap, F, STATUS_FAILED), F, {}, FALSE))
            /\ last' = Step("start", r.stage, Outcome("failed"), 0)
       ELSE /\ db' = db
            /\ last' = Step("start", r.stage, "noop", 0)
    /\ EndRun(r)
    /\ UNCHANGED queue

\* Variant: the first save is a compare-and-set, a run gives up when another run
\* of its stage has already written PROCESSING.
MarkProcessingOnce(r, loc, SF, RF, ans) ==
    IF db.status[r.stage] = STATUS_PROCESSING
    THEN /\ db' = db
         /\ last' = Step("start", r.stage, "noop", 0)
         /\ EndRun(r)
         /\ UNCHANGED queue
    ELSE /\ db' = Written(Save(db, loc, SF, RF, ans))
         /\ last' = Step("start", r.stage, Outcome("processing"), 0)
         /\ Proceed(r)
         /\ UNCHANGED queue

\* The first save of a run that goes on: the fields SF, RF of loc.
MarkProcessing(r, loc, SF, RF, ans) ==
    /\ db' = Written(Save(db, loc, SF, RF, ans))
    /\ last' = Step("start", r.stage, Outcome("processing"), 0)
    /\ Proceed(r)
    /\ UNCHANGED queue

\* Variant: a failing run returns without its last save.
ConcludeSilently(r, loc, SF, RF, ans, out, sched, n) ==
    /\ db' = IF out = "failed" THEN db ELSE Written(Save(db, loc, SF, RF, ans))
    /\ queue' = IF exists THEN IncAll(queue, sched) ELSE queue
    /\ last' = Step("finish", r.stage, Outcome(out), n)
    /\ EndRun(r)

\* Variant: a run that ends FAILED schedules its own task again.
ConcludeRetrying(r, loc, SF, RF, ans, out, sched, n) ==
    /\ db' = Written(Save(db, loc, SF, RF, ans))
    /\ queue' = IF exists
                THEN IncAll(queue, sched \cup (IF out = "failed" THEN {r.stage} ELSE {}))
                ELSE queue
    /\ last' = Step("finish", r.stage, Outcome(out), n)
    /\ EndRun(r)

\* The last save of a run, then the tasks it schedules (none when the save raised).
Conclude(r, loc, SF, RF, ans, out, sched, n) ==
    /\ db' = Written(Save(db, loc, SF, RF, ans))
    /\ queue' = IF exists THEN IncAll(queue, sched) ELSE queue
    /\ last' = Step("finish", r.stage, Outcome(out), n)
    /\ EndRun(r)

\* ---- process_transcription_task (conversation)

process_transcription_task_start(r) ==
    /\ kind = "conversation" /\ r.stage = T /\ r.pc = "loaded"
    /\ IF source = 0
       THEN \* no audio file: everything FAILED, return
            /\ db' = Written(Save(db, SetStatus(r.snap, ConvStages, STATUS_FAILED), ConvStages, {}, FALSE))
            /\ last' = Step("start", T, Outcome("failed"), 0)
            /\ EndRun(r)
            /\ UNCHANGED queue
       ELSE LET np  == NotPending(r.snap, {R, S, A, C})
                loc == SetStatus(Armed(r.snap, {R, S, A, C}), {T}, STATUS_PROCESSING)
            IN  MarkProcessing(r, loc, {T} \cup np, np, FALSE)
    /\ Frame

\* Variant: a completed transcription schedules coaching along with recap.
transcription_finish_schedules_coaching(r) ==
    /\ kind = "conversation" /\ r.stage = T /\ r.pc = "processing"
    /\ \E o \in {"urlerr", "svcfail", "ok", "bad"} :
         IF o \in {"ok", "bad"}
         THEN Conclude(r, SetResult(SetStatus(r.snap, {T}, STATUS_COMPLETED), {T}, o),
                       {T}, {T}, FALSE, "completed", {R, C}, 1)
         ELSE Conclude(r, SetStatus(r.snap, ConvStages, STATUS_FAILED),
                       ConvStages, {}, FALSE, "failed", {},
                       IF o = "urlerr" THEN 0 ELSE 1)
    /\ Frame

process_transcription_task_finish(r) ==
    /\ kind = "conversation" /\ r.stage = T /\ r.pc = "processing"
    /\ \E o \in {"urlerr", "svcfail", "ok", "bad"} :
         IF o \in {"ok", "bad"}
         THEN Conclude(r, SetResult(SetStatus(r.snap, {T}, STATUS_COMPLETED), {T}, o),
                       {T}, {T}, FALSE, "completed", {R}, 1)
         ELSE Conclude(r, SetStatus(r.snap, {T} \cup CascadeOf(kind, T), STATUS_FAILED),
                       {T} \cup CascadeOf(kind, T), {}, FALSE, "failed", {},
                       IF o = "urlerr" THEN 0 ELSE 1)
    /\ Frame

\* ---- process_recap_task

process_recap_task_start(r) ==
    /\ kind = "conversation" /\ r.stage = R /\ r.pc = "loaded"
    /\ IF PrereqMissing(r.snap, T)
       THEN PrereqExit(r, {R} \cup CascadeOf(kind, R))
       ELSE MarkProcessing(r, SetStatus(r.snap, {R}, STATUS_PROCESSING), {R}, {}, FALSE)
    /\ Frame

\* Variant: the input builder accepts whatever is stored.
AnyTranscript(snap) == TRUE

\* json.loads + isinstance(list) + formatting of the stored transcription
TranscriptUsable(snap) == snap.result[T] = "ok"

process_recap_task_finish(r) ==
    /\ kind = "conversation" /\ r.stage = R /\ r.pc = "processing"
    /\ \E o \in {"svcfail", "ok"} :
         /\ (~TranscriptUsable(r.snap) => o = "svcfail")
         /\ IF o = "ok"
            THEN Conclude(r, SetResult(SetStatus(r.snap, {R}, STATUS_COMPLETED), {R}, "ok"),
                          {R}, {R}, FALSE, "completed",
                          {d \in {S, A, C} : r.snap.status[d] = STATUS_PENDING}, 1)
            ELSE Conclude(r, SetStatus(r.snap, {R} \cup CascadeOf(kind, R), STATUS_FAILED),
                          {R} \cup CascadeOf(kind, R), {}, FALSE, "failed", {},
                          IF TranscriptUsable(r.snap) THEN 1 ELSE 0)
    /\ Frame

\* ---- process_summary_task

process_summary_task_start(r) ==
    /\ kind = "conversation" /\ r.stage = S /\ r.pc = "loaded"
    /\ IF PrereqMissing(r.snap, R)
       THEN PrereqExit(r, {S})
       ELSE MarkProcessing(r, SetResult(SetStatus(r.snap, {S}, STATUS_PROCESSING), {S}, NoResult),
                           {S}, {S}, FALSE)
    /\ Frame

\* Variant: the summary stage ends COMPLETED whatever its calls returned.
SummaryAlwaysCompleted(n) == STATUS_COMPLETED

\* Variant: the summary stage needs all three sub-summaries.
SummaryNeedsAll(n) == IF n >= Len(Chain) THEN STATUS_COMPLETED ELSE STATUS_FAILED

\* n sub-summaries of the chain were produced before the first failure
SummaryStatus(n) == IF n >= 2 THEN STATUS_COMPLETED ELSE STATUS_FAILED

\* Variant: the chain goes on after a link that returned nothing.
RECURSIVE SummaryRunUngated(_, _, _)
SummaryRunUngated(ok, i, input) ==
    IF i > Len(Chain) THEN << >>
    ELSE <<[summary |-> Chain[i], input |-> input]>>
            \o SummaryRunUngated(ok, i + 1, IF ok[i] THEN Chain[i] ELSE input)

\* The summarize_transcript calls of one run from link i of Chain on, with
\* current_input_text = input; ok[j] tells whether link j returns a summary.
\* A link's output is named after the link.
RECURSIVE SummaryRun(_, _, _)
SummaryRun(ok, i, input) ==
    IF i > Len(Chain) THEN << >>
    ELSE <<[summary |-> Chain[i], input |-> input]>>
            \o (IF ok[i] THEN SummaryRun(ok, i + 1, Chain[i]) ELSE << >>)

SummaryCalls(n)  == Len(SummaryRun([i \in 1..Len(Chain) |-> i <= n], 1, "recap"))

process_summary_task_finish(r) ==
    /\ kind = "conversation" /\ r.stage = S /\ r.pc = "processing"
    /\ \E n \in 0..Len(Chain) :
         Conclude(r, SetResult(SetStatus(r.snap, {S}, SummaryStatus(n)), {S}, SummaryOf(n)),
                  {S}, {S}, FALSE,
                  IF SummaryStatus(n) = STATUS_COMPLETED THEN "completed" ELSE "failed", {},
                  SummaryCalls(n))
    /\ Frame

\* ---- process_analysis_task

process_analysis_task_start(r) ==
    /\ kind = "conversation" /\ r.stage = A /\ r.pc = "loaded"
    /\ IF PrereqMissing(r.snap, R)
       THEN PrereqExit(r, {A})
       ELSE MarkProcessing(r, SetResult(SetStatus(r.snap, {A}, STATUS_PROCESSING), {A}, NoResult),
                           {A}, {A}, FALSE)
    /\ Frame

\* Variant: a failed analysis also fails summary and coaching.
analysis_failure_fails_siblings(r) ==
    /\ kind = "conversation" /\ r.stage = A /\ r.pc = "processing"
    /\ \E o \in {"svcfail", "ok"} :
         IF o = "ok"
         THEN Conclude(r, SetResult(SetStatus(r.snap, {A}, STATUS_COMPLETED), {A}, "ok"),
                       {A}, {A}, FALSE, "completed", {}, 1)
         ELSE Conclude(r, SetStatus(r.snap, {S, A, C}, STATUS_FAILED), {S, A, C}, {}, FALSE,
                       "failed", {}, 1)
    /\ Frame

process_analysis_task_finish(r) ==
    /\ kind = "conversation" /\ r.stage = A /\ r.pc = "processing"
    /\ \E o \in {"svcfail", "ok"} :
         IF o = "ok"
         THEN Conclude(r, SetResult(SetStatus(r.snap, {A}, STATUS_COMPLETED), {A}, "ok"),
                       {A}, {A}, FALSE, "completed", {}, 1)
         ELSE Conclude(r, SetStatus(r.snap, {A}, STATUS_FAILED), {A}, {}, FALSE, "failed", {}, 1)
    /\ Frame

\* ---- process_coaching_task

process_coaching_task_start(r) ==
    /\ kind = "conversation" /\ r.stage = C /\ r.pc = "loaded"
    /\ IF PrereqMissing(r.snap, T)
       THEN PrereqExit(r, {C})
       ELSE MarkProcessing(r, SetResult(SetStatus(r.snap, {C}, STATUS_PROCESSING), {C}, NoResult),
                           {C}, {C}, FALSE)
    /\ Frame

process_coaching_task_finish(r) ==
    /\ kind = "conversation" /\ r.stage = C /\ r.pc = "processing"
    /\ \E o \in {"svcfail", "ok"} :
         /\ (~TranscriptUsable(r.snap) => o = "svcfail")
         /\ IF o = "ok"
            THEN Conclude(r, SetResult(SetStatus(r.snap, {C}, STATUS_COMPLETED), {C}, "ok"),
                          {C}, {C}, FALSE, "completed", {}, 1)
            ELSE Conclude(r, SetStatus(r.snap, {C}, STATUS_FAILED), {C}, {}, FALSE, "failed", {},
                          IF TranscriptUsable(r.snap) THEN 1 ELSE 0)
    /\ Frame

\* ---- process_interview_transcription_task

ErrorMarker == "err"   \* "[... failed ...]" text, or a JSON {"error": ...} entry

process_interview_transcription_task_start(r) ==
    /\ kind = "interview" /\ r.stage = T /\ r.pc = "loaded"
    /\ IF source = 0
       THEN \* no S3 keys: everything FAILED, error markers stored, return
            LET loc == [SetResult(SetStatus(r.snap, IntStages, STATUS_FAILED), {T}, ErrorMarker)
                           EXCEPT !.answers = <<ErrorMarker>>]
            IN  /\ db' = Written(Save(db, loc, IntStages, {T}, TRUE))
                /\ last' = Step("start", T, Outcome("failed"), 0)
                /\ EndRun(r)
                /\ UNCHANGED queue
       ELSE LET np  == NotPending(r.snap, {A, C})
                loc == [SetResult(SetStatus(Armed(r.snap, {A, C}), {T}, STATUS_PROCESSING), {T}, NoResult)
                           EXCEPT !.answers = <<>>]
            IN  MarkProcessing(r, loc, {T} \cup np, {T} \cup np, TRUE)
    /\ Frame

\* What one answer's attempt leaves in individual_structured_transcripts.
AnswerOutcomes == {"ok", "presignfail", "svcfail"}
AnswerEntry(o) == CASE o = "ok" -> "ok"
                    [] o = "presignfail" -> ErrorMarker
                    [] OTHER -> "null"
AnswerCalled(o) == o \in {"ok", "svcfail"}

\* Variant: the loop stops at the first answer that fails.
RECURSIVE AnswerLoopAborting(_, _, _, _)
AnswerLoopAborting(o, n, i, acc) ==
    IF i > n THEN acc
    ELSE LET q == [acc EXCEPT !.parts = Append(@, [line |-> "Question", key |-> i]),
                              !.attempts = Append(@, i)]
         IN  IF o[i] # "ok"
             THEN q
             ELSE AnswerLoopAborting(o, n, i + 1,
                      [q EXCEPT !.entries = Append(@, AnswerEntry(o[i])),
                                !.parts = Append(@, [line |-> "Answer", key |-> i])])

\* for index, s3_key in enumerate(s3_keys), from key i on: o[i] is what happens
\* to key i; acc holds individual_structured_transcripts (entries),
\* interleaved_qa_parts (parts) and the keys taken up so far (attempts).
RECURSIVE AnswerLoop(_, _, _, _)
AnswerLoop(o, n, i, acc) ==
    IF i > n THEN acc
    ELSE LET q == [acc EXCEPT !.parts = Append(@, [line |-> "Question", key |-> i]),
                              !.attempts = Append(@, i)]
         IN  IF o[i] = "presignfail"
             THEN \* the error entry and the answer line are appended, then continue
                  AnswerLoop(o, n, i + 1,
                      [q EXCEPT !.entries = Append(@, ErrorMarker),
                                !.parts = Append(@, [line |-> "Answer", key |-> i])])
             ELSE \* the call's result, or None, and the answer line after the try block
                  AnswerLoop(o, n, i + 1,
                      [q EXCEPT !.entries = Append(@, AnswerEntry(o[i])),
                                !.parts = Append(@, [line |-> "Answer", key |-> i])])
NoAnswers == [entries |-> << >>, parts |-> << >>, attempts |-> << >>]

\* Variant: one failed answer fails the whole transcription.
AnyAnswerFailed(entries) == \E i \in DOMAIN entries : entries[i] # "ok"

\* not any(t is not None ...): every attempt left None
NoTranscript(entries) == \A i \in DOMAIN entries : entries[i] = "null"

process_interview_transcription_task_finish(r) ==
    /\ kind = "interview" /\ r.stage = T /\ r.pc = "processing"
    /\ \/ \* boto3.client(...) raised: own status FAILED, return
          Conclude(r, [SetResult(SetStatus(r.snap, {T}, STATUS_FAILED), {T}, ErrorMarker)
                          EXCEPT !.answers = <<ErrorMarker>>],
                   {T}, {T}, TRUE, "failed", {}, 0)
       \/ \E o \in [1..source -> AnswerOutcomes] :
            LET entries == AnswerLoop(o, source, 1, NoAnswers).entries
                ncalls  == Cardinality({i \in 1..source : AnswerCalled(o[i])})
            IN  IF NoTranscript(entries)
                THEN Conclude(r, [SetResult(SetStatus(r.snap, {T} \cup CascadeOf(kind, T), STATUS_FAILED),
                                            {T}, ErrorMarker)
                                     EXCEPT !.answers = <<ErrorMarker>>],
                              {T} \cup CascadeOf(kind, T), {T}, TRUE, "failed", {}, ncalls)
                ELSE Conclude(r, [SetResult(SetStatus(r.snap, {T}, STATUS_COMPLETED), {T}, "ok")
                                     EXCEPT !.answers = entries],
                              {T}, {T}, TRUE, "completed", {A}, ncalls)
    /\ Frame

\* ---- process_interview_analysis_task

process_interview_analysis_task_start(r) ==
    /\ kind = "interview" /\ r.stage = A /\ r.pc = "loaded"
    /\ IF PrereqMissing(r.snap, T)
       THEN PrereqExit(r, {A} \cup CascadeOf(kind, A))
       ELSE MarkProcessing(r, SetResult(SetStatus(r.snap, {A}, STATUS_PROCESSING), {A}, NoResult),
                           {A}, {A}, FALSE)
    /\ Frame

\* A validated analysis that also carries an "error" key.
ErrorPayload == "okerr"
HasErrorKey(x) == x \in {ErrorMarker, ErrorPayload}

\* The analysis run of an interview, the service returning None or one of payloads.
InterviewAnalysisFinish(r, payloads) ==
    /\ kind = "interview" /\ r.stage = A /\ r.pc = "processing"
    /\ \E o \in {"svcfail"} \cup payloads :
         IF o # "svcfail"
         THEN Conclude(r, SetResult(SetStatus(r.snap, {A}, STATUS_COMPLETED), {A}, o),
                       {A}, {A}, FALSE, "completed",
                       {d \in {C} : r.snap.status[d] = STATUS_PENDING}, 1)
         ELSE Conclude(r, SetResult(SetStatus(r.snap, {A} \cup CascadeOf(kind, A), STATUS_FAILED),
                                    {A}, ErrorMarker),
                       {A} \cup CascadeOf(kind, A), {A}, FALSE, "failed", {}, 1)
    /\ Frame

process_interview_analysis_task_finish(r) == InterviewAnalysisFinish(r, {"ok"})
process_interview_analysis_task_finish_any(r) == InterviewAnalysisFinish(r, {"ok", ErrorPayload})

\* ---- process_interview_coaching_task

process_interview_coaching_task_start(r) ==
    /\ kind = "interview" /\ r.stage = C /\ r.pc = "loaded"
    /\ IF PrereqMissing(r.snap, A)
       THEN PrereqExit(r, {C})
       ELSE MarkProcessing(r, SetResult(SetStatus(r.snap, {C}, STATUS_PROCESSING), {C}, NoResult),
                           {C}, {C}, FALSE)
    /\ Frame

process_interview_coaching_task_finish(r) ==
    /\ kind = "interview" /\ r.stage = C /\ r.pc = "processing"
    /\ IF HasErrorKey(r.snap.result[A])
       THEN \* the loaded analysis carries an "error" key: no call, an error payload, COMPLETED
            Conclude(r, SetResult(SetStatus(r.snap, {C}, STATUS_COMPLETED), {C}, "gated"),
                     {C}, {C}, FALSE, "completed", {}, 0)
       ELSE \E o \in {"svcfail", "ok"} :
                 IF o = "ok"
                 THEN Conclude(r, SetResult(SetStatus(r.snap, {C}, STATUS_COMPLETED), {C}, "ok"),
                               {C}, {C}, FALSE, "completed", {}, 1)
                 ELSE Conclude(r, SetResult(SetStatus(r.snap, {C}, STATUS_FAILED), {C}, ErrorMarker),
                               {C}, {C}, FALSE, "failed", {}, 1)
    /\ Frame

\* ---------------------------------------------------------------- system

Running == BagToSet(runs)

Next ==
    \/ ConversationViewSet_perform_create
    \/ InterviewViewSet_perform_create
    \/ perform_destroy
    \/ reprocess_interview
    \/ \E st \in Stages(kind) : task_load(st)
    \/ \E r \in Running : process_transcription_task_start(r)
    \/ \E r \in Running : process_transcription_task_finish(r)
    \/ \E r \in Running : process_recap_task_start(r)
    \/ \E r \in Running : process_recap_task_finish(r)
    \/ \E r \in Running : process_summary_task_start(r)
    \/ \E r \in Running : process_summary_task_finish(r)
    \/ \E r \in Running : process_analysis_task_start(r)
    \/ \E r \in Running : process_analysis_task_finish(r)
    \/ \E r \in Running : process_coaching_task_start(r)
    \/ \E r \in Running : process_coaching_task_finish(r)
    \/ \E r \in Running : process_interview_transcription_task_start(r)
    \/ \E r \in Running : process_interview_transcription_task_finish(r)
    \/ \E r \in Running : process_interview_analysis_task_start(r)
    \/ \E r \in Running : process_interview_analysis_task_finish(r)
    \/ \E r \in Running : process_interview_coaching_task_start(r)
    \/ \E r \in Running : process_interview_coaching_task_finish(r)

Spec == Init /\ [][Next]_vars

\* The same pipeline when the transcription of a settled artifact is regenerated.
NextRegen ==
    \/ ConversationViewSet_perform_create
    \/ InterviewViewSet_perform_create
    \/ perform_destroy
    \/ onUpstreamRegenerated
    \/ \E st \in Stages(kind) : task_load(st)
    \/ \E r \in Running : process_transcription_task_start(r)
    \/ \E r \in Running : process_transcription_task_finish(r)
    \/ \E r \in Running : process_recap_task_start(r)
    \/ \E r \in Running : process_recap_task_finish(r)
    \/ \E r \in Running : process_summary_task_start(r)
    \/ \E r \in Running : process_summary_task_finish(r)
    \/ \E r \in Running : process_analysis_task_start(r)
    \/ \E r \in Running : process_analysis_task_finish(r)
    \/ \E r \in Running : process_coaching_task_start(r)
    \/ \E r \in Running : process_coaching_task_finish(r)
    \/ \E r \in Running : process_interview_transcription_task_start(r)
    \/ \E r \in Running : process_interview_transcription_task_finish(r)
    \/ \E r \in Running : process_interview_analysis_task_start(r)
    \/ \E r \in Running : process_interview_analysis_task_finish(r)
    \/ \E r \in Running : process_interview_coaching_task_start(r)
    \/ \E r \in Running : process_interview_coaching_task_finish(r)

SpecRegen == Init /\ [][NextRegen]_vars

\* The pipeline as the web application alone drives it, on interviews with more
\* answers and with analyses that may carry an "error" key: no script run and no
\* regeneration.
NextPipeline ==
    \/ ConversationViewSet_perform_create
    \/ InterviewViewSet_perform_create_many
    \/ perform_destroy
    \/ \E st \in Stages(kind) : task_load(st)
    \/ \E r \in Running : process_transcription_task_start(r)
    \/ \E r \in Running : process_transcription_task_finish(r)
    \/ \E r \in Running : process_recap_task_start(r)
    \/ \E r \in Running : process_recap_task_finish(r)
    \/ \E r \in Running : process_summary_task_start(r)
    \/ \E r \in Running : process_summary_task_finish(r)
    \/ \E r \in Running : process_analysis_task_start(r)
    \/ \E r \in Running : process_analysis_task_finish(r)
    \/ \E r \in Running : process_coaching_task_start(r)
    \/ \E r \in Running : process_coaching_task_finish(r)
    \/ \E r \in Running : process_interview_transcription_task_start(r)
    \/ \E r \in Running : process_interview_transcription_task_finish(r)
    \/ \E r \in Running : process_interview_analysis_task_start(r)
    \/ \E r \in Running : process_interview_analysis_task_finish_any(r)
    \/ \E r \in Running : process_interview_coaching_task_start(r)
    \/ \E r \in Running : process_interview_coaching_task_finish(r)

SpecPipeline == Init /\ [][NextPipeline]_vars

\* A conversation that is not deleted, with the worker running every scheduled
\* task to its end: a worker that can take a step of a task eventually takes one.
Work ==
    \/ \E st \in ConvStages : task_load(st)
    \/ \E r \in Running : process_transcription_task_start(r)
    \/ \E r \in Running : process_transcription_task_finish(r)
    \/ \E r \in Running : process_recap_task_start(r)
    \/ \E r \in Running : process_recap_task_finish(r)
    \/ \E r \in Running : process_summary_task_start(r)
    \/ \E r \in Running : process_summary_task_finish(r)
    \/ \E r \in Running : process_analysis_task_start(r)
    \/ \E r \in Running : process_analysis_task_finish(r)
    \/ \E r \in Running : process_coaching_task_start(r)
    \/ \E r \in Running : process_coaching_task_finish(r)

NextConversation ==
    \/ ConversationViewSet_perform_create
    \/ Work

InitConversation == Init /\ kind = "conversation"
SpecConversation == InitConversation /\ [][NextConversation]_vars /\ WF_vars(Work)

TypeOK ==
    /\ kind \in {"conversation", "interview"}
    /\ \A s \in Stages(kind) : db.status[s] \in STATUS_CHOICES
    /\ BagCardinality(runs) <= MaxWorkers

\* ---------------------------------------------------------------- properties

\* The step just taken was the start step, or the finish step, of the run r.
Started(r) ==
    /\ r.pc = "loaded"
    /\ last'.op = "start" /\ last'.stage = r.stage
    /\ \/ runs' = runs (-) SetToBag({r})
       \/ runs' = (runs (-) SetToBag({r})) (+) SetToBag({[r EXCEPT !.pc = "processing"]})
Finished(r) ==
    /\ r.pc = "processing"
    /\ last'.op = "finish" /\ last'.stage = r.stage
    /\ runs' = runs (-) SetToBag({r})

Quiescent == runs = EmptyBag /\ \A st \in Stages(kind) : queue[st] = 0
RunsOf(st) == {r \in Running : r.stage = st}

\* C1 (as stated): a step that sets a stage to PROCESSING is taken in a state
\* where every stage of its dependency set is COMPLETED.
C1_DependencyOrdering ==
    [][(last'.op = "start" /\ last'.out = "processing")
          => \A d \in Deps(kind, last'.stage) : db.status[d] = STATUS_COMPLETED]_vars

\* C2 (as stated, in its finite form): once nothing is scheduled or running for
\* an existing artifact, no stage is PENDING below a FAILED prerequisite.
C2_NoOrphanedPending ==
    (exists /\ Quiescent)
       => \A s \in Stages(kind), d \in Stages(kind) :
             (s \in Downstream(kind, d) /\ db.status[s] = STATUS_PENDING)
                => db.status[d] # STATUS_FAILED

C4_IdempotentRun ==
    [][\A r \in Running :
          (/\ Started(r)
           /\ exists
           /\ db.status[r.stage] # STATUS_PENDING
           /\ (r.stage = T \/ r.snap.status[r.stage] # STATUS_PENDING)
           /\ RunsOf(r.stage) = {r} /\ CopiesIn(r, runs) = 1)
             => (db' = db /\ queue' = queue /\ last'.out # "processing")]_vars

C7_NoSourceInterview ==
    (kind = "interview" /\ last.op = "create" /\ last.out = "nosource")
       => \A s \in IntStages : db.status[s] = STATUS_FAILED

C10_ImmediateCascade ==
    [][\A r \in Running :
          ((Started(r) \/ Finished(r)) /\ last'.out = "failed")
             => \A d \in Downstream(kind, r.stage) :
                   db.status[d] = STATUS_PENDING => db'.status[d] = STATUS_FAILED]_vars

\* C11: a summary run that got past its recap check ends COMPLETED exactly when
\* the stored summary holds both the detailed and the balanced sub-summary: with
\* only the short one missing the stage is COMPLETED, with the detailed or the
\* balanced one missing it is FAILED.
C11_SummaryCompletion ==
    (kind = "conversation" /\ last.op = "finish" /\ last.stage = S /\ last.out # "gone")
        => /\ db.result[S] \in {SummaryOf(n) : n \in 0..Len(Chain)}
           /\ db.status[S] \in {STATUS_COMPLETED, STATUS_FAILED}
           /\ (db.status[S] = STATUS_COMPLETED) <=> (db.result[S] \in {SummaryOf(2), SummaryOf(3)})
           /\ (last.out = "completed") <=> (db.status[S] = STATUS_COMPLETED)

\* A summary run whose short call alone failed has just ended COMPLETED.
C11_Witness ==
    /\ kind = "conversation" /\ last.op = "finish" /\ last.stage = S
    /\ last.calls = 3
    /\ db.result[S] = SummaryOf(2)
    /\ db.status[S] = STATUS_COMPLETED

\* C12: an interview transcription run in which at least one answer was
\* transcribed ends COMPLETED whatever happened to the other answers; the stored
\* per-answer list has one entry per answer, a failed answer's entry being null
\* or an error entry; the aggregate text is stored and analysis is scheduled, so
\* that an analysis run loading the row passes its transcription check.  A run
\* that ends FAILED after calling the service called it for every answer (and
\* every call failed): no answer was left aside.
C12_PartialAggregate ==
    /\ (/\ kind = "interview" /\ last.op = "finish" /\ last.stage = T /\ last.out # "gone"
        /\ \E i \in DOMAIN db.answers : db.answers[i] = "ok")
           => /\ db.status[T] = STATUS_COMPLETED
              /\ last.out = "completed"
              /\ Len(db.answers) = source
              /\ \A i \in DOMAIN db.answers : db.answers[i] \in {"ok", "null", ErrorMarker}
              /\ ~PrereqMissing(db, T)
              /\ queue[A] >= 1
    /\ (/\ kind = "interview" /\ last.op = "finish" /\ last.stage = T /\ last.out = "failed"
        /\ last.calls > 0)
           => last.calls = source

\* A transcription over several answers has just ended COMPLETED with one answer
\* transcribed and another one failed.
C12_Witness ==
    /\ kind = "interview" /\ last.op = "finish" /\ last.stage = T
    /\ source >= 2
    /\ \E i \in DOMAIN db.answers : db.answers[i] = "ok"
    /\ \E i \in DOMAIN db.answers : db.answers[i] = "null"
    /\ db.status[T] = STATUS_COMPLETED
    /\ queue[A] >= 1

\* C13: a scheduled run of any of the eight tasks that finds its artifact gone
\* ends there: the stored data stay as they were (no FAILED is recorded), no
\* run goes on, no external call is made and no task is scheduled (the queue
\* only loses the task that was taken).
C13_ArtifactGone ==
    [][\A st \in Stages(kind) :
         (last'.op = "load" /\ last'.stage = st /\ queue'[st] = queue[st] - 1 /\ ~exists)
             => /\ last'.out = "gone"
                /\ last'.calls = 0
                /\ db' = db
                /\ runs' = runs
                /\ \A d \in Stages(kind) \ {st} : queue'[d] = queue[d]]_vars

\* A run of a non-root task has just found the artifact deleted in the middle of
\* its pipeline: the root stage is COMPLETED and no stage is FAILED.
C13_Witness ==
    /\ last.op = "load" /\ last.out = "gone" /\ last.stage # T
    /\ ~exists
    /\ db.status[T] = STATUS_COMPLETED
    /\ \A st \in Stages(kind) : db.status[st] # STATUS_FAILED

\* C14: when a non-root task starts on a copy of the row in which its own stage
\* is PENDING and the stage it depends on is not COMPLETED or has no result, the
\* run ends in that one step: the stage is FAILED in the database, PROCESSING was
\* never written, no external call is made and nothing is scheduled.
C14_DependencyNotSatisfied ==
    [][\A r \in Running :
         (/\ Started(r) /\ r.stage # T /\ exists
          /\ r.snap.status[r.stage] = STATUS_PENDING
          /\ \E d \in Deps(kind, r.stage) :
                \/ r.snap.status[d] # STATUS_COMPLETED
                \/ r.snap.result[d] = NoResult)
             => /\ last'.out = "failed"
                /\ last'.calls = 0
                /\ db'.status[r.stage] = STATUS_FAILED
                /\ runs' = runs (-) SetToBag({r})
                /\ queue' = queue]_vars

\* A non-root run has just ended at its prerequisite check: its stage is FAILED
\* and the stage it depends on is not COMPLETED.
C14_Witness ==
    /\ last.op = "start" /\ last.out = "failed" /\ last.stage \in {R, S, A, C}
    /\ db.status[last.stage] = STATUS_FAILED
    /\ \E d \in Deps(kind, last.stage) :
         db.status[d] \in {STATUS_PENDING, STATUS_PROCESSING}

\* C15: a conversation recap or coaching run that got past its check and whose
\* copy of the stored transcription cannot be turned into a transcript (not
\* JSON, not a list, or empty once formatted) ends with its stage FAILED and
\* without having called the external service.
C15_InputBuilderFailsClosed ==
    [][\A r \in Running :
         (/\ Finished(r) /\ kind = "conversation" /\ r.stage \in {R, C} /\ exists
          /\ r.snap.result[T] = "bad")
             => /\ last'.out = "failed"
                /\ last'.calls = 0
                /\ db'.status[r.stage] = STATUS_FAILED]_vars

\* A recap run has just failed on a stored transcription it could not format,
\* without a call.
C15_Witness ==
    /\ kind = "conversation" /\ last.op = "finish" /\ last.stage = R
    /\ last.out = "failed" /\ last.calls = 0
    /\ db.status[T] = STATUS_COMPLETED /\ db.result[T] = "bad"
    /\ db.status[R] = STATUS_FAILED

\* The number of external calls of the run that finished last that came back
\* with a result, read from what the run stored.
ResultsReturned ==
    CASE kind = "conversation" /\ last.stage = S ->
             CHOOSE n \in 0..Len(Chain) : db.result[S] = SummaryOf(n)
      [] kind = "interview" /\ last.stage = T ->
             Cardinality({i \in DOMAIN db.answers : db.answers[i] = "ok"})
      [] OTHER -> IF db.result[last.stage] \in {"ok", "bad", ErrorPayload} THEN 1 ELSE 0
AdapterFailed ==
    /\ last.op = "finish" /\ last.out # "gone"
    /\ last.calls > ResultsReturned

\* C16 (as stated): for every stage, a run in which an external call failed or
\* returned nothing ends with that stage FAILED.
C16_AdapterFailure ==
    AdapterFailed => db.status[last.stage] = STATUS_FAILED

\* C16 (amended): a run in which an external call failed or returned nothing
\* ends with its stage FAILED, with two exceptions.  A summary run is COMPLETED
\* exactly when the detailed and the balanced call returned a summary (the short
\* call may have failed).  An interview transcription run is COMPLETED when some
\* answer left an entry, and FAILED only if the call failed for every answer.
C16_AdapterFailureExceptPartial ==
    AdapterFailed =>
        /\ db.status[last.stage] \in {STATUS_COMPLETED, STATUS_FAILED}
        /\ (db.status[last.stage] = STATUS_FAILED) <=> (last.out = "failed")
        /\ IF kind = "conversation" /\ last.stage = S
           THEN (db.status[S] = STATUS_COMPLETED) <=> (ResultsReturned = 2)
           ELSE IF kind = "interview" /\ last.stage = T
           THEN /\ db.status[T] = STATUS_COMPLETED
                    => /\ Len(db.answers) = source
                       /\ \E i \in DOMAIN db.answers : db.answers[i] # "null"
                /\ db.status[T] = STATUS_FAILED => last.calls = source
           ELSE db.status[last.stage] = STATUS_FAILED

\* A recap run has just failed on its one call to the recap service.
C16_Witness ==
    /\ kind = "conversation" /\ last.op = "finish" /\ last.stage = R
    /\ last.calls = 1 /\ last.out = "failed"
    /\ db.result[R] = NoResult
    /\ db.status[R] = STATUS_FAILED

\* The stages no other stage requires.
Leaves(k) == {s \in Stages(k) : Downstream(k, s) = {}}

\* C17: the step in which a run of a leaf stage (conversation summary, analysis
\* or coaching, interview coaching) ends FAILED changes no status and no result
\* of another stage, and leaves the per-answer list alone; in particular no
\* COMPLETED stage becomes FAILED by it.
C17_LeafFailureContained ==
    [][\A r \in Running :
         (/\ Started(r) \/ Finished(r)
          /\ r.stage \in Leaves(kind)
          /\ last'.out = "failed")
             => /\ \A s \in Stages(kind) \ {r.stage} :
                     /\ db'.status[s] = db.status[s]
                     /\ db'.result[s] = db.result[s]
                /\ db'.answers = db.answers
                /\ db'.status[r.stage] = STATUS_FAILED]_vars

\* A leaf run has just ended FAILED on an artifact where a sibling leaf stage, and
\* everything upstream, is COMPLETED.
C17_Witness ==
    /\ last.op = "finish" /\ last.out = "failed" /\ last.stage \in Leaves(kind)
    /\ db.status[last.stage] = STATUS_FAILED
    /\ \A s \in Stages(kind) \ Leaves(kind) : db.status[s] = STATUS_COMPLETED
    /\ kind = "conversation"
    /\ \E s \in Leaves(kind) : db.status[s] = STATUS_COMPLETED

\* C18: the step in which a run ends FAILED schedules no task.  With no trigger
\* from outside the pipeline, a stage that is FAILED stays FAILED at every later
\* step, and no task of that stage is queued or in flight, so that its service
\* is not called again.
C18_NoAutomaticRetry ==
    [][/\ \A r \in Running :
            ((Started(r) \/ Finished(r)) /\ last'.out = "failed") => queue' = queue
       /\ \A s \in Stages(kind) :
            db.status[s] = STATUS_FAILED
                => /\ db'.status[s] = STATUS_FAILED
                   /\ queue'[s] = 0
                   /\ \A r \in BagToSet(runs') : r.stage # s]_vars

\* A run has just ended FAILED after calling its service, and the pipeline is at
\* rest: nothing is queued and no run is in flight.
C18_Witness ==
    /\ last.op = "finish" /\ last.out = "failed" /\ last.calls > 0
    /\ db.status[last.stage] = STATUS_FAILED
    /\ Quiescent

\* C19: every step of a summary, analysis or coaching run of a conversation
\* writes the status and result of its own stage only, whatever runs are in
\* flight beside it, and the status its finish step leaves is the one its own
\* outcome gives (COMPLETED or FAILED): a sibling neither alters what a run
\* wrote nor what it will write.
C19_SiblingsDoNotClobber ==
    [][\A r \in Running :
         (/\ kind = "conversation" /\ r.stage \in {S, A, C}
          /\ Started(r) \/ Finished(r))
             => /\ \A s \in Stages(kind) \ {r.stage} :
                     /\ db'.status[s] = db.status[s]
                     /\ db'.result[s] = db.result[s]
                /\ (Finished(r) /\ exists)
                     => db'.status[r.stage] =
                            IF last'.out = "completed" THEN STATUS_COMPLETED ELSE STATUS_FAILED]_vars

\* A sibling run has just finished while the run of another sibling stage, which
\* loaded the row before that, is between its two saves; the finished stage
\* holds its own outcome and the other one is still PROCESSING.
C19_Witness ==
    /\ kind = "conversation" /\ last.op = "finish" /\ last.stage \in {S, A, C}
    /\ db.status[last.stage] = STATUS_COMPLETED
    /\ \E r \in Running :
         /\ r.stage \in {S, A, C} \ {last.stage}
         /\ r.pc = "processing"
         /\ db.status[r.stage] = STATUS_PROCESSING

\* C20: a task checks its dependency on the copy of the row it loaded and looks
\* neither at the current row nor at other runs: the start step of a non-root run
\* whose copy satisfies the check always writes PROCESSING and goes on, whatever
\* the status of its stage has become, and its finish step calls the external
\* service whenever its input can be built.  Two runs of one stage that both
\* loaded the row before either wrote PROCESSING therefore both pass the check
\* and both call the service.
C20_CheckThenSetRace ==
    [][\A r \in Running :
         /\ (/\ Started(r) /\ r.stage # T /\ exists
             /\ \A d \in Deps(kind, r.stage) :
                  r.snap.status[d] = STATUS_COMPLETED /\ r.snap.result[d] # NoResult)
                => /\ last'.out = "processing"
                   /\ db'.status[r.stage] = STATUS_PROCESSING
                   /\ runs' = (runs (-) SetToBag({r})) (+) SetToBag({[r EXCEPT !.pc = "processing"]})
         /\ (/\ Finished(r) /\ r.stage # T
             /\ (kind = "conversation" /\ r.stage \in {R, C}) => r.snap.result[T] = "ok"
             /\ (kind = "interview" /\ r.stage = C) => ~HasErrorKey(r.snap.result[A]))
                => last'.calls >= 1]_vars

\* Two runs of one stage loaded the row while the stage was PENDING, both have
\* written PROCESSING, and neither has finished yet.
C20_Witness ==
    \E r1 \in Running, r2 \in Running :
        /\ r1.stage = r2.stage /\ r1.stage # T
        /\ r1 # r2 \/ CopiesIn(r1, runs) >= 2
        /\ r1.pc = "processing" /\ r2.pc = "processing"
        /\ r1.snap.status[r1.stage] = STATUS_PENDING
        /\ r2.snap.status[r2.stage] = STATUS_PENDING
        /\ db.status[r1.stage] = STATUS_PROCESSING

\* C21: on an artifact that is not deleted, a stage is PROCESSING only while a
\* run of that stage is between its first and its last save, and the step in
\* which a run returns leaves its stage COMPLETED or FAILED: no exit path leaves
\* PROCESSING behind.
C21_StartedRunReachesOutcome ==
    /\ \A s \in Stages(kind) :
         (exists /\ db.status[s] = STATUS_PROCESSING)
             => \E r \in Running : r.stage = s /\ r.pc = "processing"
    /\ (last.op = "finish" /\ last.out # "gone")
             => db.status[last.stage] \in {STATUS_COMPLETED, STATUS_FAILED}

\* An interview transcription run that had written PROCESSING has just returned
\* from its S3-client failure exit: transcription is FAILED.
C21_Witness ==
    /\ kind = "interview" /\ last.op = "finish" /\ last.stage = T
    /\ last.out = "failed" /\ last.calls = 0
    /\ exists
    /\ db.status[T] = STATUS_FAILED
    /\ db.status[A] = STATUS_PENDING

\* C22: once the artifact is deleted no step brings its record back or writes
\* to it, no step schedules a task, and a step of a run that was in flight ends
\* that run; a task taken from the queue afterwards starts no run.
C22_DeletionTolerated ==
    [][(created /\ ~exists)
         => /\ exists' = FALSE
            /\ db' = db
            /\ \A st \in Stages(kind) : queue'[st] <= queue[st]
            /\ BagCardinality(runs') <= BagCardinality(runs)
            /\ \A r \in Running :
                 (Started(r) \/ Finished(r))
                     => /\ runs' = runs (-) SetToBag({r})
                        /\ last'.out \in {"gone", "noop"}]_vars

\* A run that had written PROCESSING has just returned after the artifact was
\* deleted under it; what it had stored is as the deletion found it.
C22_Witness ==
    /\ created /\ ~exists
    /\ last.op = "finish" /\ last.out = "gone"
    /\ db.status[last.stage] = STATUS_PROCESSING

\* C23 (as stated): when the analysis task of an interview runs again on an
\* analysis that is COMPLETED, with coaching COMPLETED (in the row and in the
\* copy the run loaded) and no other run in flight, the step in which it starts
\* resets coaching to PENDING and clears the coaching result.
C23_RearmOnAnalysisRegeneration ==
    [][\A r \in Running :
         (/\ kind = "interview" /\ r.stage = A /\ Started(r)
          /\ last'.out = "processing"
          /\ runs = SetToBag({r})
          /\ r.snap.status[A] = STATUS_COMPLETED /\ db.status[A] = STATUS_COMPLETED
          /\ r.snap.status[C] = STATUS_COMPLETED /\ db.status[C] = STATUS_COMPLETED)
             => /\ db'.status[C] = STATUS_PENDING
                /\ db'.result[C] = NoResult]_vars

\* C24 (as stated): when a run, the only one in flight, ends FAILED, every other
\* stage that was COMPLETED, in the row and in the copy the run loaded, is still
\* COMPLETED afterwards with its result intact.
C24_CascadeOnlyPending ==
    [][\A r \in Running :
         (/\ Started(r) \/ Finished(r)
          /\ last'.out = "failed"
          /\ runs = SetToBag({r}))
             => \A s \in Stages(kind) \ {r.stage} :
                    (db.status[s] = STATUS_COMPLETED /\ r.snap.status[s] = STATUS_COMPLETED)
                        => /\ db'.status[s] = STATUS_COMPLETED
                           /\ db'.result[s] = db.result[s]]_vars

\* C25 (as stated): an interview transcription run ends COMPLETED only if some
\* answer was transcribed; a run in which no answer was does not end COMPLETED
\* and schedules no analysis task.
C25_CompletedNeedsTranscript ==
    (/\ kind = "interview" /\ last.op = "finish" /\ last.stage = T /\ last.out # "gone"
     /\ ~ \E i \in DOMAIN db.answers : db.answers[i] = "ok")
        => /\ db.status[T] # STATUS_COMPLETED
           /\ queue[A] = 0

\* C26 (as stated): an interview coaching run ends COMPLETED only when it
\* called the coaching service; a run whose loaded analysis result carries
\* an error marker makes no call and does not end COMPLETED.
C26_CoachingCompletedNeedsCall ==
    (kind = "interview" /\ last.op = "finish" /\ last.stage = C /\ last.out = "completed")
        => /\ last.calls >= 1
           /\ exists => db.result[C] = "ok"

C28_CompletedHasCompletedDeps ==
    exists => \A s \in Stages(kind) :
                 db.status[s] = STATUS_COMPLETED
                     => \A d \in Deps(kind, s) : db.status[d] = STATUS_COMPLETED

Settled == \A s \in Stages(kind) : db.status[s] \in {STATUS_COMPLETED, STATUS_FAILED}
CopiesOf(st) == IF RunsOf(st) = {} THEN 0 ELSE BagCardinality([r \in RunsOf(st) |-> CopiesIn(r, runs)])

\* C29: a conversation created with audio and not deleted, whose tasks are run
\* fairly and whose external calls return, reaches and stays in a state where
\* all five stages are COMPLETED or FAILED and no task is queued or running;
\* and no stage has a task scheduled twice: a task is scheduled only for a
\* PENDING stage that has none queued or running, and a stage whose task has
\* run is never PENDING again.
C29_ConversationTerminates ==
    /\ (kind = "conversation" /\ created /\ exists /\ source = 1) ~> [](Settled /\ Quiescent)
    /\ [](kind = "conversation" => \A st \in ConvStages : queue[st] + CopiesOf(st) <= 1)
    /\ [][kind = "conversation" =>
            \A st \in ConvStages :
                /\ queue'[st] > queue[st]
                      => /\ queue[st] = 0 /\ RunsOf(st) = {}
                         /\ db.status[st] = STATUS_PENDING
                /\ (queue[st] + CopiesOf(st) > queue'[st] + CopiesOf(st)')
                      => db'.status[st] # STATUS_PENDING
                /\ db.status[st] # STATUS_PENDING => db'.status[st] # STATUS_PENDING]_vars
C29_Witness ==
    /\ kind = "conversation" /\ exists /\ source = 1 /\ Quiescent
    /\ \A s \in ConvStages : db.status[s] = STATUS_COMPLETED
    /\ last.op = "finish"

\* C30 (as stated): a stage's status becomes COMPLETED only from PROCESSING:
\* no step takes a stage from PENDING or FAILED to COMPLETED.
C30_CompletedOnlyFromProcessing ==
    [][\A s \in Stages(kind) :
          (db.status[s] # STATUS_COMPLETED /\ db'.status[s] = STATUS_COMPLETED)
              => db.status[s] = STATUS_PROCESSING]_vars

\* What a run that ends COMPLETED stores for stage s: a transcription, a recap
\* text, a summary set with detailed and balanced, an analysis, a coaching result.
Payloads(s) ==
    CASE s = T -> {"ok", "bad"}
      [] s = S -> {SummaryOf(2), SummaryOf(3)}
      [] s = A -> {"ok", ErrorPayload}
      [] s = C -> {"ok", "gated"}
      [] OTHER -> {"ok"}

\* C31: whenever a stage is COMPLETED its result field holds a non-empty
\* payload, and that payload was written by the run that completed the stage:
\* a step that makes a stage COMPLETED, or changes the result of a COMPLETED
\* stage, is the last save of a run of that stage ending COMPLETED.
C31_CompletedHoldsOwnPayload ==
    [][\A s \in Stages(kind) :
          db'.status[s] = STATUS_COMPLETED
              => /\ db'.result[s] \in Payloads(s)
                 /\ db'.result[s] \notin {NoResult, ErrorMarker}
                 /\ (db'.status[s] # db.status[s] \/ db'.result[s] # db.result[s])
                       => /\ last'.op = "finish" /\ last'.stage = s
                          /\ last'.out = "completed"]_vars
C31_Witness ==
    /\ kind = "conversation" /\ exists
    /\ last.op = "finish" /\ last.stage = S /\ last.out = "completed"
    /\ db.status[S] = STATUS_COMPLETED /\ db.result[S] = SummaryOf(2)
    /\ db.status[R] = STATUS_COMPLETED /\ db.result[R] = "ok"

\* What can happen to one answer key: the outcomes of the pipeline, or a key
\* that is not a non-blank string.
KeyOutcomes == AnswerOutcomes \cup {"badkey"}

\* C32: for N answer keys the loop takes up every key once, in list order,
\* whatever happened to the keys before it; it leaves N entries, entry i being
\* what key i produced, and one question line followed by one answer line per
\* key, in key order; and a run that ends COMPLETED has stored N entries and
\* made at most one service call per key.
C32_PerAnswerBookkeeping ==
    /\ \A n \in 1..MaxAnswerKeys : \A o \in [1..n -> KeyOutcomes] :
         LET done == AnswerLoop(o, n, 1, NoAnswers) IN
           /\ done.attempts = [i \in 1..n |-> i]
           /\ Len(done.entries) = n
           /\ \A i \in 1..n : done.entries[i] = (IF o[i] = "presignfail" THEN ErrorMarker
                                                 ELSE AnswerEntry(o[i]))
           /\ Len(done.parts) = 2 * n
           /\ \A i \in 1..n : /\ done.parts[2 * i - 1] = [line |-> "Question", key |-> i]
                              /\ done.parts[2 * i] = [line |-> "Answer", key |-> i]
    /\ (/\ kind = "interview" /\ exists
        /\ last.op = "finish" /\ last.stage = T /\ last.out = "completed")
           => /\ Len(db.answers) = source
              /\ last.calls <= source
C32_Witness ==
    /\ kind = "interview" /\ exists /\ source = 2
    /\ last.op = "finish" /\ last.stage = T /\ last.out = "completed"
    /\ db.answers = <<"null", "ok">> /\ last.calls = 2

\* C33 (as stated): a recap run, or an interview analysis run, that ends
\* COMPLETED schedules a downstream stage at most once, and only a stage whose
\* status is PENDING.
C33_SchedulingGuardedByPending ==
    [][\A r \in Running :
          (/\ Finished(r) /\ last'.out = "completed"
           /\ r.stage = (IF kind = "conversation" THEN R ELSE A))
             => \A s \in Stages(kind) :
                   queue'[s] # queue[s]
                      => /\ queue'[s] = queue[s] + 1
                         /\ db'.status[s] = STATUS_PENDING]_vars

\* C34: when a non-root task starts on a copy of the row in which the stage it
\* depends on is not COMPLETED and its own stage is not PENDING, the run ends
\* in that step and changes nothing: every status and result of the row is as
\* before, no external call is made and nothing is scheduled.
C34_NoopWhenNotPending ==
    [][\A r \in Running :
         (/\ Started(r) /\ r.stage # T
          /\ r.snap.status[r.stage] # STATUS_PENDING
          /\ \E d \in Deps(kind, r.stage) : r.snap.status[d] # STATUS_COMPLETED)
             => /\ db' = db
                /\ queue' = queue
                /\ last'.calls = 0
                /\ last'.out \notin {"processing", "failed", "completed"}
                /\ runs' = runs (-) SetToBag({r})]_vars

\* A non-root run has just ended at its prerequisite check without a write: its
\* stage was already FAILED and the stage it depends on is not COMPLETED.
C34_Witness ==
    /\ exists /\ last.op = "start" /\ last.out = "noop" /\ last.stage # T
    /\ db.status[last.stage] = STATUS_FAILED
    /\ \E d \in Deps(kind, last.stage) : db.status[d] # STATUS_COMPLETED

====
